---- MODULE Spec2Model ----
(***************************************************************************)
(* Three scaffolding templates (FastAPI, Flask "nexus", Django), each a    *)
(* route table of handlers that answer a request with a JSON or text       *)
(* payload.  One behaviour of this module is the life of one scaffolded    *)
(* service: the template and the scaffolded values are fixed when the      *)
(* project is generated, the process is started on some host, requests are *)
(* accepted and handled in any interleaving while the wall clock advances, *)
(* and the process may be stopped and started again on another host.       *)
(***************************************************************************)
EXTENDS Integers, Sequences, FiniteSets

\* ---------------------------------------------------------------- bounds
\* Requests accepted over the whole behaviour.
MaxRequests == 3
\* Requests in flight (accepted, handler not yet invoked) at one time.
MaxInFlight == 2
\* Advances of the wall clock.
MaxTicks == 2
\* Times the process is started again after the first start.
MaxRestarts == 1

\* ------------------------------------------------------ scaffolding inputs
FastAPI == "python-fastapi-api"
Nexus == "python-app-nexus"
Django == "python-django-base"
Templates == {FastAPI, Nexus, Django}

\* The (values.app_name, values.app_env) pairs the scaffolding tool substitutes.
ScaffoldValues ==
  { [app_name |-> "orders", app_env |-> "prod"],
    [app_name |-> "billing", app_env |-> "dev"] }

\* Hosts socket.gethostname() can name.
Hostnames == {"pod-a", "pod-b"}

VARIABLES
  template,   \* which template the project was scaffolded from
  values,     \* the scaffolded values
  hostname,   \* host the current process runs on
  clock,      \* advances of the wall clock so far
  phase,      \* lifecycle of the process: "created", "running", "stopped"
  log,        \* messages the process's logger has emitted
  routes,     \* the application's route table, in registration order
  inflight,   \* path -> number of accepted requests whose handler has not run
  history,    \* the responses sent so far, oldest first
  restarts    \* process starts after the first

vars == <<template, values, hostname, clock, phase, log, routes, inflight,
          history, restarts>>

\* ------------------------------------------------------------- wall clock
\* datetime.datetime.now(): the behaviour's first instant and the instants
\* that follow it, 12 h 00 min 01 s apart, so that the hour wraps through
\* noon and midnight and the date through the end of a month and of a year.
Epoch == [year |-> 2024, month |-> 12, day |-> 31,
          hour |-> 11, minute |-> 59, second |-> 59]

IsLeap(y) == (y % 4 = 0 /\ y % 100 # 0) \/ y % 400 = 0

DaysInMonth(y, m) ==
  IF m = 2 THEN (IF IsLeap(y) THEN 29 ELSE 28)
  ELSE IF m \in {4, 6, 9, 11} THEN 30 ELSE 31

NextDay(d) ==
  IF d.day < DaysInMonth(d.year, d.month) THEN [d EXCEPT !.day = d.day + 1]
  ELSE IF d.month < 12 THEN [d EXCEPT !.day = 1, !.month = d.month + 1]
  ELSE [d EXCEPT !.day = 1, !.month = 1, !.year = d.year + 1]

RECURSIVE AddDays(_, _)
AddDays(d, n) == IF n = 0 THEN d ELSE AddDays(NextDay(d), n - 1)

AddSeconds(d, s) ==
  LET t == (d.hour * 3600) + (d.minute * 60) + d.second + s
      r == t % 86400
  IN  [AddDays(d, t \div 86400) EXCEPT
         !.hour = r \div 3600, !.minute = (r % 3600) \div 60, !.second = r % 60]

now(k) == AddSeconds(Epoch, k * ((12 * 3600) + 1))

\* ------------------------------------------------------------ strftime
Digit == <<"0", "1", "2", "3", "4", "5", "6", "7", "8", "9">>

\* %I, %M, %S, %d: two digits, zero padded.
TwoDigits(n) == Digit[((n \div 10) % 10) + 1] \o Digit[(n % 10) + 1]

\* %Y
FourDigits(n) == TwoDigits(n \div 100) \o TwoDigits(n % 100)

\* %I: the hour on a 12-hour clock, 12 for midnight and noon.
Hour12(h) == IF h % 12 = 0 THEN 12 ELSE h % 12

\* %p
AmPm(h) == IF h < 12 THEN "AM" ELSE "PM"

\* %B
MonthName == <<"January", "February", "March", "April", "May", "June", "July",
               "August", "September", "October", "November", "December">>

\* strftime("%I:%M:%S%p on %B %d, %Y")
strftime(d) ==
  TwoDigits(Hour12(d.hour)) \o ":" \o TwoDigits(d.minute) \o ":"
    \o TwoDigits(d.second) \o AmPm(d.hour) \o " on " \o MonthName[d.month]
    \o " " \o TwoDigits(d.day) \o ", " \o FourDigits(d.year)

\* ------------------------------------------- FastAPI template, main.py
\* logger.info(msg)
logger_info(lg, msg) == Append(lg, msg)

startup_event(lg, app_name) ==
  logger_info(lg, "Application startup: " \o app_name)

shutdown_event(lg, app_name) ==
  logger_info(lg, "Application shutdown: " \o app_name)

\* health with the key misspelt, as in the Flask template's liveness handler.
health_typo(app_name) == [staus |-> "healthy", app |-> app_name]

health(app_name) == [status |-> "healthy", app |-> app_name]

\* readiness that reports ready only once a liveness probe has been answered.
readiness_after_health(app_name) ==
  [status |-> IF \E i \in 1..Len(history) : history[i].path = "/health"
              THEN "ready" ELSE "starting",
   app |-> app_name]

readiness(app_name) == [status |-> "ready", app |-> app_name]

\* status reporting the liveness word instead of "running".
status_healthy(app_name) ==
  [status |-> "healthy", app |-> app_name, version |-> "1.0.0"]

status(app_name) ==
  [status |-> "running", app |-> app_name, version |-> "1.0.0"]

\* root that also reports a counter shared by all requests in flight.
root_counting(app_name) ==
  [message |-> "Welcome to " \o app_name, docs |-> "/docs", health |-> "/health",
   pending |-> inflight["/"]]

root(app_name) ==
  [message |-> "Welcome to " \o app_name, docs |-> "/docs", health |-> "/health"]

\* The routes the @app.get decorators of main.py register, in order.
main_routes ==
  << [path |-> "/health", endpoint |-> "health"],
     [path |-> "/ready", endpoint |-> "readiness"],
     [path |-> "/api/v1/status", endpoint |-> "status"],
     [path |-> "/", endpoint |-> "root"] >>

\* ------------------------------------ FastAPI template, routers/*.py
routers_health(app_name) == [status |-> "healthy", app |-> app_name]

routers_readiness(app_name) == [status |-> "ready", app |-> app_name]

routers_status(app_name) ==
  [status |-> "running", app |-> app_name, version |-> "1.0.0"]

\* The routes the @router.get decorators register on the two APIRouters;
\* main.py never passes either router to app.include_router.
router_routes ==
  << [path |-> "/health", endpoint |-> "routers_health"],
     [path |-> "/ready", endpoint |-> "routers_readiness"],
     [path |-> "/api/v1/status", endpoint |-> "routers_status"] >>

\* What a router module's handler returns for a path it defines.
RouterCall(path, app_name) ==
  CASE path = "/health" -> routers_health(app_name)
    [] path = "/ready" -> routers_readiness(app_name)
    [] path = "/api/v1/status" -> routers_status(app_name)

\* FastAPI serialises the dict a handler returns with the default status.
JSONResponse(content) == [status_code |-> 200, body |-> content]

\* ----------------------------------------------- Flask template, app.py
\* flask.jsonify(d): a JSON response with the default status.
jsonify(d) == [status_code |-> 200, body |-> d]

\* A view returning the tuple (response, code): the code is the status.
make_response(rv, code) == [rv EXCEPT !.status_code = code]

info(d, host, vals) ==
  jsonify([time |-> strftime(d),
           hostname |-> host,
           message |-> "You are doing great, human!!! XOX111O",
           deployed_on |-> "kubernetes",
           env |-> vals.app_name,
           app_name |-> vals.app_env])

\* The liveness view answering 503.
nexus_health_unavailable == make_response(jsonify([staus |-> "up"]), 503)

nexus_health == make_response(jsonify([staus |-> "up"]), 200)

url_map ==
  << [path |-> "/api/v1/info", endpoint |-> "info"],
     [path |-> "/api/v1/healthz", endpoint |-> "nexus_health"] >>

\* --------------------------------------------- Django template, urls.py
\* django.http.HttpResponse(content): text with the default status.
HttpResponse(content) == [status_code |-> 200, body |-> [content |-> content]]

health_check == HttpResponse("ok")

\* home greeting a returning visitor differently.
home_with_visits ==
  HttpResponse(IF history = <<>> THEN "Hello World from Django"
               ELSE "Hello again from Django")

home == HttpResponse("Hello World from Django")

urlpatterns ==
  << [path |-> "admin/", endpoint |-> "admin.site.urls"],
     [path |-> "health/", endpoint |-> "health_check"],
     [path |-> "", endpoint |-> "home"] >>

\* ------------------------------------------------------------- dispatch
\* The FastAPI application with both routers also passed to include_router.
RouteTableIncludingRouters(t) ==
  CASE t = FastAPI -> main_routes \o router_routes
    [] t = Nexus -> url_map
    [] t = Django -> urlpatterns

\* The route table a template's module builds when it is imported.
RouteTable(t) ==
  CASE t = FastAPI -> main_routes
    [] t = Nexus -> url_map
    [] t = Django -> urlpatterns

\* Endpoints that are handlers of this repository (admin.site.urls is Django's).
Handlers ==
  {"health", "readiness", "status", "root", "routers_health",
   "routers_readiness", "routers_status", "info", "nexus_health",
   "health_check", "home"}

Paths == {"/health", "/ready", "/api/v1/status", "/", "/api/v1/info",
          "/api/v1/healthz", "health/", ""}

\* The paths of a route table that lead to a handler of this repository.
HandlerPaths(rts) ==
  {rts[i].path : i \in {j \in 1..Len(rts) : rts[j].endpoint \in Handlers}}

\* The frameworks try the routes in order: the first match is the endpoint.
Match(rts, path) ==
  LET hits == {i \in 1..Len(rts) : rts[i].path = path}
  IN  rts[CHOOSE i \in hits : \A j \in hits : i <= j].endpoint

\* The response the endpoint produces.
Call(endpoint, d, host, vals) ==
  CASE endpoint = "health" -> JSONResponse(health(vals.app_name))
    [] endpoint = "readiness" -> JSONResponse(readiness(vals.app_name))
    [] endpoint = "status" -> JSONResponse(status(vals.app_name))
    [] endpoint = "root" -> JSONResponse(root(vals.app_name))
    [] endpoint = "routers_health" -> JSONResponse(routers_health(vals.app_name))
    [] endpoint = "routers_readiness" ->
         JSONResponse(routers_readiness(vals.app_name))
    [] endpoint = "routers_status" -> JSONResponse(routers_status(vals.app_name))
    [] endpoint = "info" -> info(d, host, vals)
    [] endpoint = "nexus_health" -> nexus_health
    [] endpoint = "health_check" -> health_check
    [] endpoint = "home" -> home

\* The response to a GET of path, served now.
Serve(path) == Call(Match(routes, path), now(clock), hostname, values)

\* ------------------------------------------------------------- actions
InFlight == LET RECURSIVE Sum(_)
                Sum(S) == IF S = {} THEN 0
                          ELSE LET p == CHOOSE q \in S : TRUE
                               IN  inflight[p] + Sum(S \ {p})
            IN  Sum(Paths)

Init ==
  /\ template \in Templates
  /\ values \in ScaffoldValues
  /\ hostname \in Hostnames
  /\ clock = 0
  /\ phase = "created"
  /\ log = <<>>
  /\ routes = RouteTable(template)
  /\ inflight = [p \in Paths |-> 0]
  /\ history = <<>>
  /\ restarts = 0

\* Time passes.
Tick ==
  /\ clock < MaxTicks
  /\ clock' = clock + 1
  /\ UNCHANGED <<template, values, hostname, phase, log, routes, inflight,
                 history, restarts>>

\* A startup hook that, besides logging, mounts the routers on the app.
StartupIncludingRouters ==
  /\ template = FastAPI
  /\ phase = "created"
  /\ phase' = "running"
  /\ log' = startup_event(log, values.app_name)
  /\ routes' = routes \o router_routes
  /\ UNCHANGED <<template, values, hostname, clock, inflight, history,
                 restarts>>

\* The server runs the application's startup hook.
Startup ==
  /\ template = FastAPI
  /\ phase = "created"
  /\ phase' = "running"
  /\ log' = startup_event(log, values.app_name)
  /\ UNCHANGED <<template, values, hostname, clock, routes, inflight,
                 history, restarts>>

\* The server runs the application's shutdown hook.
Shutdown ==
  /\ template = FastAPI
  /\ phase = "running"
  /\ phase' = "stopped"
  /\ log' = shutdown_event(log, values.app_name)
  /\ UNCHANGED <<template, values, hostname, clock, routes, inflight,
                 history, restarts>>

\* The framework accepts a GET of a routed path.
Accept(path) ==
  /\ phase # "stopped"
  /\ path \in HandlerPaths(routes)
  /\ InFlight < MaxInFlight
  /\ Len(history) + InFlight < MaxRequests
  /\ inflight' = [inflight EXCEPT ![path] = @ + 1]
  /\ UNCHANGED <<template, values, hostname, clock, phase, log, routes,
                 history, restarts>>

\* The framework invokes the handler of one request in flight and sends
\* its response; alone records whether no other request was in flight.
Handle(path) ==
  /\ inflight[path] > 0
  /\ LET r == Serve(path)
     IN  history' = Append(history,
                      [path |-> path, status_code |-> r.status_code,
                       body |-> r.body, alone |-> (InFlight = 1)])
  /\ inflight' = [inflight EXCEPT ![path] = @ - 1]
  /\ UNCHANGED <<template, values, hostname, clock, phase, log, routes,
                 restarts>>

\* The process ends and the module is imported again, maybe on another host.
Restart ==
  /\ restarts < MaxRestarts
  /\ InFlight = 0
  /\ template = FastAPI => phase = "stopped"
  /\ restarts' = restarts + 1
  /\ hostname' \in Hostnames
  /\ phase' = "created"
  /\ log' = <<>>
  /\ routes' = RouteTable(template)
  /\ UNCHANGED <<template, values, clock, inflight, history>>

Next ==
  \/ Tick
  \/ Startup
  \/ Shutdown
  \/ \E path \in Paths : Accept(path)
  \/ \E path \in Paths : Handle(path)
  \/ Restart

Spec == Init /\ [][Next]_vars

\* ================================================================ claims
Sent == 1..Len(history)

\* The liveness and readiness paths of the templates.
ProbePaths == {"/health", "/ready", "/api/v1/healthz"}

\* The paths both main.py and a router module define.
SharedPaths == {"/health", "/ready", "/api/v1/status"}

\* A response body without the fields that report the clock and the host.
Static(b) == [k \in DOMAIN b \ {"time", "hostname"} |-> b[k]]

HasStatus(b, word) == "status" \in DOMAIN b /\ b.status = word

\* C1: in the FastAPI template every response to GET /health, whatever was
\* requested before it, has status code 200 and a body whose "status" is
\* "healthy".
C1_HealthIsHealthy ==
  template = FastAPI =>
    \A i \in Sent : history[i].path = "/health" =>
      history[i].status_code = 200 /\ HasStatus(history[i].body, "healthy")

\* A started FastAPI service answered /health after two requests to other paths.
C1_Witness ==
  /\ template = FastAPI
  /\ phase = "running"
  /\ Len(history) = 3
  /\ history[1].path = "/" /\ history[2].path = "/api/v1/status"
  /\ history[3].path = "/health"
  /\ history[3].body.status = "healthy"

\* C2: in the FastAPI template every response to GET /api/v1/status, whatever
\* was requested before it, has status code 200 and a body whose "status" is
\* "running".
C2_StatusIsRunning ==
  template = FastAPI =>
    \A i \in Sent : history[i].path = "/api/v1/status" =>
      history[i].status_code = 200 /\ HasStatus(history[i].body, "running")

\* A started FastAPI service answered /api/v1/status after /health and /ready.
C2_Witness ==
  /\ template = FastAPI
  /\ phase = "running"
  /\ Len(history) = 3
  /\ history[1].path = "/health" /\ history[2].path = "/ready"
  /\ history[3].path = "/api/v1/status"
  /\ history[3].body.status = "running"

\* C3: in the FastAPI template every response to GET /ready has status code
\* 200 and a body whose "status" is "ready", whether or not /health or any
\* other path was requested before it.
C3_ReadyIsReady ==
  template = FastAPI =>
    \A i \in Sent : history[i].path = "/ready" =>
      history[i].status_code = 200 /\ HasStatus(history[i].body, "ready")

\* /ready was answered before any other request, and again after /health.
C3_Witness ==
  /\ template = FastAPI
  /\ Len(history) = 3
  /\ history[1].path = "/ready" /\ history[2].path = "/health"
  /\ history[3].path = "/ready"
  /\ history[1].body = history[3].body

\* C4: every response to a liveness or readiness path of any template has a
\* body with a "status" field whose value is "healthy", "up" or "ready".
C4_ProbesAreHealthStatus ==
  \A i \in Sent : history[i].path \in ProbePaths =>
    /\ "status" \in DOMAIN history[i].body
    /\ history[i].body.status \in {"healthy", "up", "ready"}

\* C5 as stated: any two responses to the same path have the same body and
\* the same status code, whatever the earlier requests, the time and the host.
C5_SamePathSameResponse ==
  \A i, j \in Sent : history[i].path = history[j].path =>
    /\ history[i].status_code = history[j].status_code
    /\ history[i].body = history[j].body

\* C5 amended: any two responses to the same path have the same status code
\* and, but for the "time" and "hostname" fields of the Flask /api/v1/info
\* body, the same body; only /api/v1/info has those two fields, and two info
\* responses that agree on them are equal.
C5_SamePathSameResponseButTimeAndHost ==
  \A i, j \in Sent : history[i].path = history[j].path =>
    /\ history[i].status_code = history[j].status_code
    /\ Static(history[i].body) = Static(history[j].body)
    /\ history[i].path # "/api/v1/info" => history[i].body = history[j].body

\* The Flask service answered /api/v1/info at two times on two hosts, with a
\* liveness probe in between.
C5_Witness ==
  /\ template = Nexus
  /\ Len(history) = 3
  /\ history[1].path = "/api/v1/info" /\ history[3].path = "/api/v1/info"
  /\ history[2].path = "/api/v1/healthz"
  /\ history[1].body.time # history[3].body.time
  /\ history[1].body.hostname # history[3].body.hostname
  /\ Static(history[1].body) = Static(history[3].body)

\* C6: every response a handler of any of the three templates has sent has
\* status code 200.
C6_EveryResponseIs200 ==
  \A i \in Sent : history[i].status_code = 200

\* The Flask service answered both of its routes, the liveness one twice.
C6_Witness ==
  /\ template = Nexus
  /\ Len(history) = 3
  /\ {history[i].path : i \in Sent} = {"/api/v1/info", "/api/v1/healthz"}
  /\ \A i \in Sent : history[i].status_code = 200

\* C7: a response produced while other requests were in flight equals the
\* response to the same path produced with no other request in flight, at the
\* same time on the same host.
C7_ConcurrentAsAlone ==
  \A i, j \in Sent :
    /\ history[i].path = history[j].path
    /\ history[i].alone /\ ~history[j].alone
    /\ "time" \in DOMAIN history[i].body =>
         /\ "time" \in DOMAIN history[j].body
         /\ history[i].body.time = history[j].body.time
         /\ history[i].body.hostname = history[j].body.hostname
    => /\ history[i].status_code = history[j].status_code
       /\ history[i].body = history[j].body

\* Two requests to one path were in flight together; the first was handled
\* next to the other, the second alone, and a third path in between.
C7_Witness ==
  /\ Len(history) = 3
  /\ history[1].path = history[3].path
  /\ history[2].path # history[1].path
  /\ ~history[1].alone /\ ~history[2].alone /\ history[3].alone
  /\ history[1].body = history[3].body

\* A step that runs the startup hook, and one that runs the shutdown hook.
StartupStep == phase = "created" /\ phase' = "running"

ShutdownStep == phase = "running" /\ phase' = "stopped"

\* C8: a step that runs startup_event or shutdown_event appends exactly one
\* message, fixed by the application name, to the log and changes nothing
\* else: the route table and the response to every routed path are the same
\* after the step as before it.
C8_HooksOnlyLog ==
  [][ (StartupStep \/ ShutdownStep) =>
        /\ Len(log') = Len(log) + 1
        /\ SubSeq(log', 1, Len(log)) = log
        /\ StartupStep =>
             log'[Len(log')] = "Application startup: " \o values.app_name
        /\ ShutdownStep =>
             log'[Len(log')] = "Application shutdown: " \o values.app_name
        /\ routes' = routes
        /\ HandlerPaths(routes') = HandlerPaths(routes)
        /\ \A p \in HandlerPaths(routes) : Serve(p)' = Serve(p)
        /\ UNCHANGED <<template, values, hostname, clock, inflight, history,
                       restarts>> ]_vars

\* Both hooks of a FastAPI service have run, one after the other, and the
\* service has answered three requests.
C8_Witness ==
  /\ template = FastAPI
  /\ phase = "stopped"
  /\ log = << "Application startup: " \o values.app_name,
              "Application shutdown: " \o values.app_name >>
  /\ routes = main_routes
  /\ Len(history) = 3

\* C9: in every Flask /api/v1/info response the "env" field is values.app_env
\* and the "app_name" field is values.app_name.
C9_InfoFieldsCarryTheirValues ==
  \A i \in Sent : history[i].path = "/api/v1/info" =>
    /\ history[i].body.env = values.app_env
    /\ history[i].body.app_name = values.app_name

\* C10: in the FastAPI template, for each of /health, /ready and
\* /api/v1/status the router module's handler returns, with the same status
\* code, the body the application answers with, the route table holds exactly
\* one route for the path, and no route of the table leads to a router
\* module's handler.
C10_RoutersEqualMain ==
  template = FastAPI =>
    /\ \A p \in SharedPaths :
         /\ Cardinality({i \in 1..Len(routes) : routes[i].path = p}) = 1
         /\ JSONResponse(RouterCall(p, values.app_name)) = Serve(p)
    /\ \A i \in 1..Len(routes) :
         routes[i].endpoint \notin
           {router_routes[k].endpoint : k \in 1..Len(router_routes)}
    /\ \A i \in Sent : history[i].path \in SharedPaths =>
         /\ history[i].body = RouterCall(history[i].path, values.app_name)
         /\ history[i].status_code = 200

\* The FastAPI service, started a second time, has answered each of the three
\* shared paths.
C10_Witness ==
  /\ template = FastAPI
  /\ restarts = 1
  /\ {history[i].path : i \in Sent} = SharedPaths

====
